---- MODULE Spec2Model ----
(***************************************************************************)
(* State-machine model of ratepulling.py: the quota-gated executor         *)
(* (gs_retry), the duplicate-key cache (get_existing_dates_set,            *)
(* append_new_unique_rows), the watermark resolver (get_last_funding_dt),  *)
(* the nearest-match reconciler (align_bybit_interest_to_funding,          *)
(* pick_closest_rate) and the per-partition pass of main().                *)
(*                                                                         *)
(* Representation.  A sheet cell is the string gspread returns for it;     *)
(* "" is an empty cell.  A Python value of a row built by the program is   *)
(* a tagged pair: <<"s", text>> for a str, <<"n", decimal text>> for a     *)
(* number, <<"None">> for None.  A datetime is its number of seconds; the  *)
(* model's clock lives in January 1970 (UTC), where fmt_dt is computed     *)
(* digit by digit.  A funding rate is an integer number of rate units.     *)
(***************************************************************************)
EXTENDS Integers, Sequences, FiniteSets, TLC

VARIABLES
    g,          \* gs_retry: the frame of one running call
    script,     \* gs_retry: outcomes the wrapped operation gave so far
    venue,      \* the partition's venue: "Binance" or "Bybit"
    sheet,      \* the partition's data rows (sheet rows 2..), 11 cells each
    pc,         \* per process: position in main()'s pass over the partition
    dates,      \* per process: _EXISTING_DATES_CACHE entry of the partition
    lastdt,     \* per process: _LAST_FUNDING_DT_CACHE entry of the partition
    rows,       \* per process: the row list handed to append_new_unique_rows
    fund,       \* per process: the funding history fetched in this run
    upd,        \* per process: align's snapshot and its pending updates
    clock,      \* wall clock, ms
    hist,       \* history: what the calls and runs did (never read by the code)
    m           \* nearest-match harness: series, target, gap and the result

vars == <<g, script, venue, sheet, pc, dates, lastdt, rows, fund, upd, clock, hist, m>>

\* ------------------------------------------------------------------ bounds
\* Most runs of main() over the partition in one behaviour.
MaxRuns == 2
\* Most data rows of the partition when the first run starts.
MaxInitRows == 1
\* Most events in one fetched funding history, most rows in one candidate list.
MaxBatch == 2
\* Most calls the call-sequence harness makes in one run.
MaxCalls == 3
\* Most samples in the reference series of the nearest-match harness, most rows
\* of the partition one reconciliation call reads.
MaxSeries == 3
\* Most records in the funding history handed to one row-building call.
MaxFetched == 3
\* The page requests of a cursor pagination are counted up to this number.
MaxPagesCounted == 3

\* --------------------------------------------------------- program constants
RetryBudget == 6
InitialDelay == 1
RowWidth == 11
BYBIT_ALIGN_MAX_GAP_HOURS == 48
APPEND_BYBIT_SNAPSHOT_ROW == TRUE
HEADERS ==
    << "Date", "Funding Rate APR (%)", "Funding Rate APR (%) reverse",
       "Interest Rate APR (%)", "Spot Price (USDT)", "Per-Coin Max Loan USD (API)",
       "Collateral Max Limit USD (USDT)", "USDT initialLTV", "USDT liquidationLTV",
       "Collateral Needed (USDT) for Max Loan Amount",
       "Hypothetical liquidationStartingPrice (USDT/token)" >>
\* INTERVALS['ENA'], the token both venues track.
INTERVAL_ENA == 6

\* Optional[datetime] / Optional[int]: None
NoneDt == -1

\* ------------------------------------------------------------- small helpers
Abs(x) == IF x < 0 THEN -x ELSE x
Range(s) == {s[i] : i \in 1..Len(s)}
SeqsUpTo(S, n) == UNION {[1..k -> S] : k \in 0..n}

RECURSIVE Ascending(_)
\* The numbers of the set S as an ascending list.
Ascending(S) ==
    IF S = {} THEN <<>>
    ELSE LET lo == CHOOSE x \in S : \A y \in S : x <= y
         IN  <<lo>> \o Ascending(S \ {lo})

\* The indices i of s, ascending, with Keep(i): a list comprehension's filter.
SelectIdx(s, Keep(_)) == Ascending({i \in 1..Len(s) : Keep(i)})

\* ------------------------------------------------------------ gs_retry
\* An outcome of one invocation of the wrapped gspread call: a result, a
\* gspread APIError with its message (a list of words), or another exception.
MsgWords == {"429", "Quota exceeded", "500", "403"}
Messages == {<<"APIError", w>> : w \in MsgWords}
Outcomes ==
    {[kind |-> "ok", msg |-> <<>>], [kind |-> "other", msg |-> <<"WorksheetNotFound">>]}
        \cup {[kind |-> "APIError", msg |-> msg] : msg \in Messages}

\* "429" in msg or "Quota exceeded" in msg
IsRateLimit(msg) == \E i \in 1..Len(msg) : msg[i] \in {"429", "Quota exceeded"}

gs_frame0 ==
    [i |-> 0, delay |-> InitialDelay, sleeps |-> <<>>, calls |-> 0, status |-> "running"]

\* gs_step with the delay grown by one instead of doubled.
gs_step_linear(f, out) ==
    LET called == [f EXCEPT !.calls = @ + 1] IN
    IF out.kind = "ok" THEN [called EXCEPT !.status = "returned"]
    ELSE IF f.i < RetryBudget /\ out.kind = "APIError" /\ IsRateLimit(out.msg)
    THEN [called EXCEPT !.sleeps = Append(@, f.delay), !.delay = @ + 1, !.i = @ + 1]
    ELSE [called EXCEPT !.status = "raised"]

\* gs_step with every APIError retried, whatever its message.
gs_step_retryall(f, out) ==
    LET called == [f EXCEPT !.calls = @ + 1] IN
    IF out.kind = "ok" THEN [called EXCEPT !.status = "returned"]
    ELSE IF f.i < RetryBudget /\ out.kind = "APIError"
    THEN [called EXCEPT !.sleeps = Append(@, f.delay), !.delay = @ * 2, !.i = @ + 1]
    ELSE [called EXCEPT !.status = "raised"]

\* One invocation of fn inside gs_retry, with outcome out: an iteration of the
\* for loop while i < 6, the last unguarded call after it.
gs_step(f, out) ==
    LET called == [f EXCEPT !.calls = @ + 1] IN
    IF out.kind = "ok" THEN [called EXCEPT !.status = "returned"]
    ELSE IF f.i < RetryBudget /\ out.kind = "APIError" /\ IsRateLimit(out.msg)
    THEN [called EXCEPT !.sleeps = Append(@, f.delay), !.delay = @ * 2, !.i = @ + 1]
    ELSE [called EXCEPT !.status = "raised"]

RECURSIVE gs_run(_, _)
\* gs_retry against an operation that answers outs[1], outs[2], ... in turn.
gs_run(f, outs) ==
    IF f.status # "running" \/ outs = <<>> THEN f
    ELSE gs_run(gs_step(f, Head(outs)), Tail(outs))

\* gs_retry(fn): "returned" or "raised"
gs_retry(outs) == gs_run(gs_frame0, outs).status

\* ------------------------------------------------------- time and text
SecMs == 1000
\* gap_ms of align_bybit_interest_to_funding
gap_ms == BYBIT_ALIGN_MAX_GAP_HOURS * 3600 * 1000

\* f"{n:02d}"
Pad2(n) == IF n < 10 THEN "0" \o ToString(n) ELSE ToString(n)

\* fmt_dt: "month/day/year hour:minute:second" of the second ts_ms falls in;
\* the milliseconds are dropped.  Computed for January 1970.
fmt_dt(ts_ms) ==
    LET s == ts_ms \div SecMs
        day == 1 + (s \div 86400)
        hour == (s % 86400) \div 3600
        minute == (s % 3600) \div 60
        second == s % 60
    IN  "1/" \o ToString(day) \o "/1970 " \o ToString(hour) \o ":" \o Pad2(minute)
            \o ":" \o Pad2(second)

\* The instants (ms) the model's upstream events, clock and stored keys use:
\* two in one second, neighbours a second apart, and instants exactly the
\* maximum gap and one second more than it after the first.
T1 == 1 * SecMs
T1b == T1 + 500
T2 == 2 * SecMs
T3 == 3 * SecMs
TGap == T1 + gap_ms
TGap1 == TGap + SecMs
Instants == {T1, T1b, T2, T3, TGap, TGap1}
Seconds == {t \div SecMs : t \in Instants}

\* The date strings strptime("%m/%d/%Y %H:%M:%S") accepts, with the datetime
\* (in seconds) each parses to.
DateTable == [t \in Seconds |-> fmt_dt(t * SecMs)]

\* _parse_dt: the datetime of a well-formed date string, None for any other
_parse_dt(s) ==
    IF \E t \in Seconds : DateTable[t] = s
    THEN CHOOSE t \in Seconds : DateTable[t] = s
    ELSE NoneDt

\* _to_ms
_to_ms(s) == LET dt == _parse_dt(s) IN IF dt # NoneDt THEN dt * SecMs ELSE NoneDt

\* str(x).strip() == ""
IsBlank(s) == s \in {"", " "}

\* The texts of the model's cells that float() accepts once commas are removed.
NumberText == {"0", "3", "4", "300", "400", "1000", "1,000"}

\* str(d).replace(",", "")
StripCommas(s) == IF s = "1,000" THEN "1000" ELSE s

\* float(text): <<value>>, or <<>> when float() raises ValueError
ParseFloat(s) ==
    LET t == StripCommas(s) IN
    IF t \in NumberText /\ \E n \in 0..1000 : ToString(n) = t
    THEN <<CHOOSE n \in 0..1000 : ToString(n) = t>>
    ELSE <<>>

\* --------------------------------------------------------- Python values
PyStr(s) == <<"s", s>>
PyNum(n) == <<"n", ToString(n)>>
PyNone == <<"None">>

\* str(v)
Str(v) == IF v[1] = "None" THEN "None" ELSE v[2]

\* CellOf with the text of a str kept behind a quote mark, as a raw write shows it.
CellOf_quoted(v) ==
    IF v[1] = "None" THEN "" ELSE IF v[1] = "s" THEN "'" \o v[2] ELSE v[2]

\* What the sheet shows for a value written with USER_ENTERED: text and
\* numbers as they are, None as an empty cell.
CellOf(v) == IF v[1] = "None" THEN "" ELSE v[2]

\* ----------------------------------------------------------- the store
RECURSIVE TrimRight(_, _)
\* gspread drops the trailing empty cells of a row (empty = "") and the
\* trailing empty rows of a range (empty = <<>>).
TrimRight(s, empty) ==
    IF s = <<>> THEN <<>>
    ELSE IF s[Len(s)] = empty THEN TrimRight(SubSeq(s, 1, Len(s) - 1), empty)
    ELSE s

\* ws.col_values(1): column A from the header row down
col_values(sh) == TrimRight(<<HEADERS[1]>> \o [i \in 1..Len(sh) |-> sh[i][1]], "")

\* ws.get('A2:B'), ws.get('A2:D'): the first n columns of the data rows
ws_get(sh, n) ==
    TrimRight([i \in 1..Len(sh) |-> TrimRight(SubSeq(sh[i], 1, n), "")], <<>>)

\* ws.append_rows(out, value_input_option="USER_ENTERED")
append_rows(sh, out) ==
    sh \o [i \in 1..Len(out) |-> [j \in 1..Len(out[i]) |-> CellOf(out[i][j])]]

\* ws.update_cell(row_idx, 4, val): sheet row row_idx is data row row_idx - 1
update_cell(sh, row_idx, col, val) ==
    [sh EXCEPT ![row_idx - 1] = [@ EXCEPT ![col] = ToString(val)]]

\* ------------------------------------------------------ duplicate-key cache
\* An entry of _EXISTING_DATES_CACHE / _LAST_FUNDING_DT_CACHE not yet made.
NoDates == [loaded |-> FALSE, s |-> {}]
NoLastDt == [loaded |-> FALSE, dt |-> NoneDt]

\* DatesOf without the slice that drops the header entry.
DatesOf_header(vals) == {v \in Range(vals) : v # ""}

\* set(v for v in vals[1:] if v)
DatesOf(vals) == {v \in Range(Tail(vals)) : v # ""}

\* get_existing_dates_set, its gs_retry(ws.col_values, 1) having returned
get_existing_dates_set(c, sh) ==
    IF c.loaded THEN c ELSE [loaded |-> TRUE, s |-> DatesOf(col_values(sh))]

\* to_add = [r for r in rows if r and str(r[0]) not in existing]
to_add(rs, existing) ==
    LET idx == SelectIdx(rs, LAMBDA i : rs[i] # <<>> /\ Str(rs[i][1]) \notin existing)
    IN  [k \in 1..Len(idx) |-> rs[idx[k]]]

\* Normalize without the padding loop: the row is cut to 11 fields only.
Normalize_nopad(r) == SubSeq(r, 1, IF Len(r) < RowWidth THEN Len(r) ELSE RowWidth)

\* row = list(r)[:11]; while len(row) < 11: row.append("")
Normalize(r) == [j \in 1..RowWidth |-> IF j <= Len(r) THEN r[j] ELSE PyStr("")]

\* The body of append_new_unique_rows after the cache lookup: the rows handed
\* to ws.append_rows and the cache as the loop leaves it.
append_new_unique_rows(rs, existing) ==
    LET add == to_add(rs, existing)
        out == [k \in 1..Len(add) |-> Normalize(add[k])]
    IN  [out |-> out, existing |-> existing \cup {Str(out[k][1]) : k \in 1..Len(out)}]

\* ------------------------------------------------------ watermark resolver
RECURSIVE LastDt_min(_, _, _)
\* LastDt with the comparison turned round: the earliest qualifying row wins.
LastDt_min(vals, i, last_dt) ==
    IF i > Len(vals) THEN last_dt
    ELSE LET row == vals[i]
             ds == IF Len(row) > 0 THEN row[1] ELSE ""
             b == IF Len(row) > 1 THEN row[2] ELSE ""
             dt == _parse_dt(ds)
         IN  IF row # <<>> /\ ds # "" /\ ~IsBlank(b) /\ dt # NoneDt
                /\ (last_dt = NoneDt \/ dt < last_dt)
             THEN LastDt_min(vals, i + 1, dt)
             ELSE LastDt_min(vals, i + 1, last_dt)

RECURSIVE LastDt_anyrow(_, _, _)
\* LastDt without the test of the funding cell.
LastDt_anyrow(vals, i, last_dt) ==
    IF i > Len(vals) THEN last_dt
    ELSE LET row == vals[i]
             ds == IF Len(row) > 0 THEN row[1] ELSE ""
             dt == _parse_dt(ds)
         IN  IF row # <<>> /\ ds # "" /\ dt # NoneDt /\ (last_dt = NoneDt \/ dt > last_dt)
             THEN LastDt_anyrow(vals, i + 1, dt)
             ELSE LastDt_anyrow(vals, i + 1, last_dt)

RECURSIVE LastDt(_, _, _)
\* The loop of get_last_funding_dt over vals = ws.get('A2:B').
LastDt(vals, i, last_dt) ==
    IF i > Len(vals) THEN last_dt
    ELSE LET row == vals[i]
             ds == IF Len(row) > 0 THEN row[1] ELSE ""
             b == IF Len(row) > 1 THEN row[2] ELSE ""
             dt == _parse_dt(ds)
         IN  IF row # <<>> /\ ds # "" /\ ~IsBlank(b) /\ dt # NoneDt
                /\ (last_dt = NoneDt \/ dt > last_dt)
             THEN LastDt(vals, i + 1, dt)
             ELSE LastDt(vals, i + 1, last_dt)

\* get_last_funding_dt, its gs_retry(ws.get, 'A2:B') having returned
get_last_funding_dt(c, sh) ==
    IF c.loaded THEN c ELSE [loaded |-> TRUE, dt |-> LastDt(ws_get(sh, 2), 1, NoneDt)]

\* --------------------------------------------------- nearest-match reconciler
RECURSIVE InsertByT(_, _)
\* x put into the list s, sorted by .t, after every element whose .t is <= its own
InsertByT(s, x) ==
    IF s = <<>> THEN <<x>>
    ELSE IF Head(s).t <= x.t THEN <<Head(s)>> \o InsertByT(Tail(s), x)
    ELSE <<x>> \o s

RECURSIVE SortByT(_)
\* list.sort(key=lambda x: x[0]): ascending by timestamp and stable
SortByT(s) ==
    IF s = <<>> THEN <<>>
    ELSE InsertByT(SortByT(SubSeq(s, 1, Len(s) - 1)), s[Len(s)])

RECURSIVE bisect_loop(_, _, _, _)
\* bisect.bisect_left(a, x): lo and hi are 0-based as in Python
bisect_loop(a, x, lo, hi) ==
    IF lo < hi
    THEN LET mid == (lo + hi) \div 2
         IN  IF a[mid + 1] < x THEN bisect_loop(a, x, mid + 1, hi)
             ELSE bisect_loop(a, x, lo, mid)
    ELSE lo

bisect_left(a, x) == bisect_loop(a, x, 0, Len(a))

\* KeyLess without the tie rank: the distance alone decides.
KeyLess_norank(p, q, ts) == Abs(p.t - ts) <= Abs(q.t - ts)

\* The key of min(cands, key=...): (abs(p[0] - ts), 0 if p[0] <= ts else 1)
KeyLess(p, q, ts) ==
    LET dp == Abs(p.t - ts)
        dq == Abs(q.t - ts)
        rp == IF p.t <= ts THEN 0 ELSE 1
        rq == IF q.t <= ts THEN 0 ELSE 1
    IN  dp < dq \/ (dp = dq /\ rp < rq)

\* cands and best of pick_closest_rate and of align's loop: <<best>>, or <<>>
\* when there is no candidate.  min() keeps the first of equal keys.
closest(snaps, ts) ==
    LET times == [i \in 1..Len(snaps) |-> snaps[i].t]
        pos == bisect_left(times, ts)
        cands == (IF pos > 0 THEN <<snaps[pos]>> ELSE <<>>)
                     \o (IF pos < Len(snaps) THEN <<snaps[pos + 1]>> ELSE <<>>)
    IN  IF cands = <<>> THEN <<>>
        ELSE IF Len(cands) = 2 /\ KeyLess(cands[2], cands[1], ts) THEN <<cands[2]>>
        ELSE <<cands[1]>>

\* pick_closest_rate(hist, ts_ms): <<rate>>, or <<>> for None
pick_closest_rate(h, ts_ms) ==
    IF h = <<>> THEN <<>> ELSE <<closest(h, ts_ms)[1].v>>

\* The match of align's loop for one target under a maximum gap: <<sample>> when
\* an update is appended, <<>> when none is.
match(snaps, ts, gap) ==
    LET best == closest(snaps, ts) IN
    IF best # <<>> /\ Abs(best[1].t - ts) <= gap THEN best ELSE <<>>

\* The classification loop of align over vals = ws.get('A2:D'): the indices of
\* the rows that are snapshots (B blank, D a number) and of those that are
\* targets (B not blank, D blank).
AlignCell(row, j) == IF Len(row) >= j THEN row[j] ELSE ""
AlignTimed(vals, i) == AlignCell(vals[i], 1) # "" /\ _to_ms(AlignCell(vals[i], 1)) # NoneDt
IsSnap(vals, i) ==
    /\ AlignTimed(vals, i)
    /\ IsBlank(AlignCell(vals[i], 2))
    /\ ~IsBlank(AlignCell(vals[i], 4))
    /\ ParseFloat(AlignCell(vals[i], 4)) # <<>>
\* IsTarget without the test that the interest cell is blank.
IsTarget_anyinterest(vals, i) ==
    AlignTimed(vals, i) /\ ~IsBlank(AlignCell(vals[i], 2))

IsTarget(vals, i) ==
    /\ AlignTimed(vals, i)
    /\ ~IsBlank(AlignCell(vals[i], 2))
    /\ IsBlank(AlignCell(vals[i], 4))

align_snaps(vals) ==
    LET idx == SelectIdx(vals, LAMBDA i : IsSnap(vals, i))
        unsorted == [k \in 1..Len(idx) |->
                        [t |-> _to_ms(vals[idx[k]][1]), v |-> ParseFloat(vals[idx[k]][4])[1]]]
    IN  SortByT(unsorted)

align_targets(vals) ==
    LET idx == SelectIdx(vals, LAMBDA i : IsTarget(vals, i))
    IN  [k \in 1..Len(idx) |-> [t |-> _to_ms(vals[idx[k]][1]), row |-> idx[k] + 1]]

RECURSIVE align_loop(_, _, _, _)
align_loop(snaps, targets, k, gap) ==
    IF k > Len(targets) THEN <<>>
    ELSE LET hit == match(snaps, targets[k].t, gap)
         IN  (IF hit # <<>> THEN <<[row |-> targets[k].row, val |-> hit[1].v]>> ELSE <<>>)
                 \o align_loop(snaps, targets, k + 1, gap)

\* updates of align_bybit_interest_to_funding for the snapshot vals it read
align_updates(vals) ==
    LET snaps == align_snaps(vals)
        targets == align_targets(vals)
    IN  IF vals = <<>> \/ snaps = <<>> \/ targets = <<>> THEN <<>>
        ELSE align_loop(snaps, targets, 1, gap_ms)

\* ------------------------------------------------------- derived metrics
\* An optional number is <<>> (None) or <<n>>.  An LTV is held in hundredths
\* (50 for 0.5), so a division by an LTV multiplies by LtvScale first.
LtvScale == 100
Truthy(x) == x # <<>> /\ x[1] # 0
PyOpt(x) == IF x = <<>> THEN PyNone ELSE PyNum(x[1])

\* funding_apr_percent(per_period, token) with INTERVALS[token] = 6
funding_apr_percent(per_period) == (per_period * 100) * INTERVAL_ENA * 365

\* collateral_needed_usdt without the test init_ltv <= 0.
collateral_needed_anysign(loan_usd, init_ltv) ==
    IF ~Truthy(loan_usd) \/ ~Truthy(init_ltv) THEN <<>>
    ELSE <<(loan_usd[1] * LtvScale) \div init_ltv[1]>>

\* collateral_needed_usdt
collateral_needed_usdt(loan_usd, init_ltv) ==
    IF ~Truthy(loan_usd) \/ ~Truthy(init_ltv) \/ init_ltv[1] <= 0 THEN <<>>
    ELSE <<(loan_usd[1] * LtvScale) \div init_ltv[1]>>

\* liquidation_start_price
liquidation_start_price(spot, init_ltv, liq_ltv) ==
    IF ~Truthy(spot) \/ spot[1] <= 0 \/ ~Truthy(init_ltv) \/ ~Truthy(liq_ltv) THEN <<>>
    ELSE <<(spot[1] * liq_ltv[1]) \div init_ltv[1]>>

\* ------------------------------------------------------------ row building
\* A fetched funding record: t is its timestamp in ms (NoneDt when the field is
\* missing or int() rejects it), rate is <<per-period rate>> (<<>> when missing
\* or float() rejects it).
WellFormed(e) == e.t # NoneDt /\ e.rate # <<>>

\* after_dt and not (t_dt and t_dt > after_dt)
Skipped(t_ms, after_dt) ==
    LET t_dt == _parse_dt(fmt_dt(t_ms))
    IN  after_dt # NoneDt /\ ~(t_dt # NoneDt /\ t_dt > after_dt)

\* The row build_binance_rows_since appends for one event.
binance_row(e, x) ==
    LET b == funding_apr_percent(e.rate[1])
        d_dec == pick_closest_rate(x.hist, e.t)
        d == IF d_dec # <<>> THEN <<d_dec[1] * 100>> ELSE <<>>
        \* float(loanable.get("flexibleMaxLimit", 0.0)): a number in every case
        per_coin_max_usd == IF x.loan = <<>> THEN <<0>> ELSE x.loan
        j_collat == IF Truthy(per_coin_max_usd)
                    THEN collateral_needed_usdt(per_coin_max_usd, <<x.init_ltv>>)
                    ELSE <<>>
        k_liq == IF Truthy(x.spot)
                 THEN liquidation_start_price(x.spot, <<x.init_ltv>>, <<x.liq_ltv>>)
                 ELSE <<>>
    IN  << PyStr(fmt_dt(e.t)), PyNum(b), PyNum(-b), PyOpt(d), PyOpt(x.spot),
           PyOpt(per_coin_max_usd), PyNum(x.cap), PyNum(x.init_ltv), PyNum(x.liq_ltv),
           PyOpt(j_collat), PyOpt(k_liq) >>

\* build_binance_rows_since: the sort key and the loop read both fields of
\* every record with no handler, so one malformed record raises.
build_binance_rows_since(fnd, after_dt, x) ==
    IF \E i \in 1..Len(fnd) : ~WellFormed(fnd[i]) THEN [ok |-> FALSE, rows |-> <<>>]
    ELSE LET sorted == SortByT(fnd)
             idx == SelectIdx(sorted, LAMBDA i : ~Skipped(sorted[i].t, after_dt))
         IN  [ok |-> TRUE, rows |-> [k \in 1..Len(idx) |-> binance_row(sorted[idx[k]], x)]]

\* The row build_bybit_rows_since appends for one event.
bybit_row(e, x) ==
    LET b == funding_apr_percent(e.rate[1])
        per_coin_max_usd == IF Truthy(x.loan) /\ Truthy(x.spot)
                            THEN <<x.loan[1] * x.spot[1]>> ELSE <<>>
        j_collat == IF Truthy(per_coin_max_usd)
                    THEN collateral_needed_usdt(per_coin_max_usd, <<x.init_ltv>>)
                    ELSE <<>>
        k_liq == IF Truthy(x.spot)
                 THEN liquidation_start_price(x.spot, <<x.init_ltv>>, <<x.liq_ltv>>)
                 ELSE <<>>
    IN  << PyStr(fmt_dt(e.t)), PyNum(b), PyNum(-b), PyNone, PyOpt(x.spot),
           PyOpt(per_coin_max_usd), PyNum(x.cap), PyNum(x.init_ltv), PyNum(x.liq_ltv),
           PyOpt(j_collat), PyOpt(k_liq) >>

\* build_bybit_rows_since: the sort is abandoned when a timestamp is malformed
\* (the list keeps its order), and the loop skips a malformed record.
build_bybit_rows_since(fnd, after_dt, x) ==
    LET sorted == IF \A i \in 1..Len(fnd) : fnd[i].t # NoneDt THEN SortByT(fnd) ELSE fnd
        idx == SelectIdx(sorted, LAMBDA i :
                   WellFormed(sorted[i]) /\ ~Skipped(sorted[i].t, after_dt))
    IN  [ok |-> TRUE, rows |-> [k \in 1..Len(idx) |-> bybit_row(sorted[idx[k]], x)]]

\* d = snap.get("flexible_pct") or snap.get("fixed90_pct") or snap.get("fixed180_pct")
snapshot_d(snap) ==
    IF Truthy(snap.flexible_pct) THEN snap.flexible_pct
    ELSE IF Truthy(snap.fixed90_pct) THEN snap.fixed90_pct
    ELSE snap.fixed180_pct

\* row = [ts, 0.0, 0.0, d, spot, None, None, None, None, None, None] with spot = None
snapshot_row(ts_ms, snap) ==
    << PyStr(fmt_dt(ts_ms)), PyNum(0), PyNum(0), PyOpt(snapshot_d(snap)), PyNone,
       PyNone, PyNone, PyNone, PyNone, PyNone, PyNone >>

\* ------------------------------------------------- specification: gs_retry
\* The state of everything but gs_retry while one call of it is observed.
RestIdle ==
    /\ venue = "Bybit"
    /\ sheet = <<>>
    /\ pc = <<>>
    /\ dates = <<>>
    /\ lastdt = <<>>
    /\ rows = <<>>
    /\ fund = <<>>
    /\ upd = <<>>
    /\ clock = 0
    /\ hist = <<>>

MatchIdle == m = <<>>

InitRetry ==
    /\ g = gs_frame0
    /\ script = <<>>
    /\ RestIdle
    /\ MatchIdle

\* gs_retry invokes fn once more and the operation answers out.
GsInvoke ==
    /\ g.status = "running"
    /\ \E out \in Outcomes :
        /\ g' = gs_step(g, out)
        /\ script' = Append(script, out)
    /\ UNCHANGED <<venue, sheet, pc, dates, lastdt, rows, fund, upd, clock, hist, m>>

NextRetry == GsInvoke

SpecRetry == InitRetry /\ [][NextRetry]_vars

RateLimited(out) == out.kind = "APIError" /\ IsRateLimit(out.msg)
AllRateLimited(s) == \A i \in 1..Len(s) : RateLimited(s[i])
BackoffSchedule == <<1, 2, 4, 8, 16, 32>>

\* C4: while every invocation so far failed with a rate-limit error, gs_retry
\* has slept exactly the first delays of 1, 2, 4, 8, 16, 32 in that order, one
\* after each of the first six failures; the seventh invocation is followed by
\* no sleep and its failure is raised to the caller.
C4_BackoffSchedule ==
    AllRateLimited(script) =>
        /\ g.calls = Len(script)
        /\ Len(script) <= 6 =>
            /\ g.sleeps = SubSeq(BackoffSchedule, 1, Len(script))
            /\ g.status = "running"
        /\ Len(script) = 7 =>
            /\ g.sleeps = BackoffSchedule
            /\ g.status = "raised"
        /\ Len(script) <= 7

C4_Witness ==
    /\ Len(script) = 7
    /\ AllRateLimited(script)
    /\ g.status = "raised"
    /\ g.sleeps = BackoffSchedule

\* C5: as soon as an invocation fails with an error that is not a rate-limit
\* error, gs_retry has raised it with no sleep after it and no invocation after
\* it; as soon as an invocation succeeds, gs_retry has returned with no
\* invocation after it.
C5_ImmediatePropagation ==
    Len(script) > 0 =>
        LET n == Len(script)
            last == script[n]
        IN  /\ g.calls = n
            /\ AllRateLimited(SubSeq(script, 1, n - 1))
            /\ (last.kind # "ok" /\ ~RateLimited(last)) =>
                   g.status = "raised" /\ Len(g.sleeps) = n - 1
            /\ last.kind = "ok" =>
                   g.status = "returned" /\ Len(g.sleeps) = n - 1

C5_Witness ==
    /\ Len(script) = 3
    /\ script[3].kind = "APIError"
    /\ ~IsRateLimit(script[3].msg)
    /\ g.status = "raised"
    /\ g.sleeps = <<1, 2>>

\* ------------------------------------------- specification: serialized runs
\* What the backing store may answer to the invocations of one gs_retry call.
OutOk == [kind |-> "ok", msg |-> <<>>]
OutQuota == [kind |-> "APIError", msg |-> <<"APIError", "429">>]
OutDenied == [kind |-> "APIError", msg |-> <<"APIError", "403">>]
StoreScripts ==
    { <<OutOk>>, <<OutQuota, OutQuota, OutOk>>, <<OutDenied>>,
      <<OutQuota, OutQuota, OutQuota, OutQuota, OutQuota, OutQuota, OutQuota>> }
\* How a gs_retry call against the store may end: "returned" or "raised".
StoreResults == {gs_retry(outs) : outs \in StoreScripts}

\* Upstream: the funding events a fetch may return (two in one second, one a
\* second later, one whose rate does not parse), the auxiliary loan
\* parameters (absent after a failed fetch, or present), the loan snapshot of
\* by_loan_snapshot ({} after a failed fetch) and the instants of the clock.
Events ==
    { [t |-> T1, rate |-> <<1>>], [t |-> T1b, rate |-> <<2>>], [t |-> T2, rate |-> <<1>>],
      [t |-> T3, rate |-> <<>>] }
FundBatches == SeqsUpTo(Events, MaxBatch)
AuxAbsent ==
    [spot |-> <<>>, loan |-> <<>>, cap |-> 0, init_ltv |-> 0, liq_ltv |-> 0, hist |-> <<>>]
AuxPresent ==
    [spot |-> <<100>>, loan |-> <<1000>>, cap |-> 5000, init_ltv |-> 50, liq_ltv |-> 40,
     hist |-> <<[t |-> T1, v |-> 3], [t |-> T3, v |-> 4]>>]
AuxInputs == {AuxAbsent, AuxPresent}
SnapEmpty == [present |-> FALSE, flexible_pct |-> <<>>, fixed90_pct |-> <<>>, fixed180_pct |-> <<>>]
SnapInputs ==
    { SnapEmpty,
      [present |-> TRUE, flexible_pct |-> <<>>, fixed90_pct |-> <<3>>, fixed180_pct |-> <<>>] }
ClockTimes == {T2, T3}

\* A stored row with key a, funding cell b and interest cell d.
SheetRow(a, b, d) == <<a, b, "", d, "", "", "", "", "", "", "">>
KeysDistinct(sh) ==
    \A i, j \in 1..Len(sh) : (i # j /\ sh[i][1] # "") => sh[i][1] # sh[j][1]
\* The keys of the data rows, empty cells left out.
StoreKeys(sh) == {sh[i][1] : i \in 1..Len(sh)} \ {""}

\* The partitions a first run may find: rows of earlier runs and of the
\* operator, with keys that parse or not, funding and interest cells filled or
\* not, no key twice.
InitRowSet ==
    {SheetRow(a, b, d) : a \in {fmt_dt(T2), fmt_dt(TGap), "n/a"}, b \in {"", "5"}, d \in {"", "4"}}
InitSheets == {sh \in SeqsUpTo(InitRowSet, MaxInitRows) : KeysDistinct(sh)}

Ended == {"idle", "done", "failed"}

Init ==
    /\ g = gs_frame0
    /\ script = <<>>
    /\ venue \in {"Binance", "Bybit"}
    /\ sheet \in InitSheets
    /\ pc = [p \in {1} |-> "idle"]
    /\ dates = [p \in {1} |-> NoDates]
    /\ lastdt = [p \in {1} |-> NoLastDt]
    /\ rows = [p \in {1} |-> <<>>]
    /\ fund = [p \in {1} |-> <<>>]
    /\ upd = [p \in {1} |-> <<>>]
    /\ clock = T2
    /\ hist = [runs |-> 0, wms |-> <<>>, prevDone |-> FALSE, prevFund |-> <<>>,
               prevAdded |-> 0, same |-> FALSE, addedFund |-> 0, addedSnap |-> 0]
    /\ MatchIdle

\* A new process starts main(): its module-level caches are empty.
StartRun(p) ==
    /\ \A q \in DOMAIN pc : pc[q] \in Ended
    /\ hist.runs < MaxRuns
    /\ pc' = [pc EXCEPT ![p] = "wm"]
    /\ dates' = [dates EXCEPT ![p] = NoDates]
    /\ lastdt' = [lastdt EXCEPT ![p] = NoLastDt]
    /\ rows' = [rows EXCEPT ![p] = <<>>]
    /\ fund' = [fund EXCEPT ![p] = <<>>]
    /\ upd' = [upd EXCEPT ![p] = <<>>]
    /\ hist' = [hist EXCEPT !.runs = @ + 1,
                            !.prevDone = (pc[p] = "done"),
                            !.prevFund = fund[p],
                            !.prevAdded = hist.addedFund + hist.addedSnap,
                            !.same = FALSE, !.addedFund = 0, !.addedSnap = 0]
    /\ UNCHANGED <<g, script, venue, sheet, clock, m>>

\* last_dt = get_last_funding_dt(ws)
ReadWatermark(p) ==
    /\ pc[p] = "wm"
    /\ \E res \in StoreResults :
        IF res = "returned"
        THEN /\ lastdt' = [lastdt EXCEPT ![p] = get_last_funding_dt(lastdt[p], sheet)]
             /\ pc' = [pc EXCEPT ![p] = "build"]
             /\ hist' = [hist EXCEPT !.wms = Append(@, lastdt'[p].dt)]
        ELSE /\ pc' = [pc EXCEPT ![p] = "failed"]
             /\ UNCHANGED <<lastdt, hist>>
    /\ UNCHANGED <<g, script, venue, sheet, dates, rows, fund, upd, clock, m>>

\* Where main() goes after the append_new_unique_rows call of a stage.
After(stage) ==
    IF stage = "fund"
    THEN IF venue = "Bybit" THEN (IF APPEND_BYBIT_SNAPSHOT_ROW THEN "snap" ELSE "align")
         ELSE "done"
    ELSE "align"

\* Entering append_new_unique_rows(ws, rs): back at once for an empty list,
\* else on to the cache, which reads the store when it has no entry yet.
Enter(p, stage, rs) ==
    IF rs = <<>> THEN After(stage)
    ELSE IF dates[p].loaded THEN stage \o "_write"
    ELSE stage \o "_dates"

\* rows = build_binance_rows_since(tk, last_dt, bn_usdt) / build_bybit_rows_since(tk, last_dt)
BuildRows(p) ==
    /\ pc[p] = "build"
    /\ \E f \in FundBatches, x \in AuxInputs :
        LET built == IF venue = "Binance"
                     THEN build_binance_rows_since(f, lastdt[p].dt, x)
                     ELSE build_bybit_rows_since(f, lastdt[p].dt, x)
        IN  /\ fund' = [fund EXCEPT ![p] = f]
            /\ rows' = [rows EXCEPT ![p] = built.rows]
            /\ pc' = [pc EXCEPT ![p] = IF built.ok THEN Enter(p, "fund", built.rows)
                                       ELSE "failed"]
            /\ hist' = [hist EXCEPT !.same = hist.prevDone /\ f = hist.prevFund]
    /\ UNCHANGED <<g, script, venue, sheet, dates, lastdt, upd, clock, m>>

\* existing = get_existing_dates_set(ws), the cache having no entry
LoadDates(p) ==
    /\ pc[p] \in {"fund_dates", "snap_dates"}
    /\ \E res \in StoreResults :
        IF res = "returned"
        THEN /\ dates' = [dates EXCEPT ![p] = get_existing_dates_set(dates[p], sheet)]
             /\ pc' = [pc EXCEPT ![p] = IF pc[p] = "fund_dates" THEN "fund_write"
                                        ELSE "snap_write"]
        ELSE /\ pc' = [pc EXCEPT ![p] = "failed"]
             /\ UNCHANGED dates
    /\ UNCHANGED <<g, script, venue, sheet, lastdt, rows, fund, upd, clock, hist, m>>

\* The rest of append_new_unique_rows: filter, normalise, merge the keys into
\* the cache, then one gs_retry(ws.append_rows, out).
WriteRows(p) ==
    /\ pc[p] \in {"fund_write", "snap_write"}
    /\ LET stage == IF pc[p] = "fund_write" THEN "fund" ELSE "snap"
           plan == append_new_unique_rows(rows[p], dates[p].s)
       IN  IF plan.out = <<>>
           THEN /\ pc' = [pc EXCEPT ![p] = After(stage)]
                /\ UNCHANGED <<sheet, dates, hist>>
           ELSE /\ dates' = [dates EXCEPT ![p].s = plan.existing]
                /\ \E res \in StoreResults :
                    IF res = "returned"
                    THEN /\ sheet' = append_rows(sheet, plan.out)
                         /\ pc' = [pc EXCEPT ![p] = After(stage)]
                         /\ hist' = IF stage = "fund"
                                    THEN [hist EXCEPT !.addedFund = @ + Len(plan.out)]
                                    ELSE [hist EXCEPT !.addedSnap = @ + Len(plan.out)]
                    ELSE /\ pc' = [pc EXCEPT ![p] = "failed"]
                         /\ UNCHANGED <<sheet, hist>>
    /\ UNCHANGED <<g, script, venue, lastdt, rows, fund, upd, clock, m>>

\* snap = by_loan_snapshot(tk); if snap: append_new_unique_rows(ws, [row]) with
\* ts = fmt_dt(now_ms())
Snapshot(p) ==
    /\ pc[p] = "snap"
    /\ \E snap \in SnapInputs, now \in {t \in ClockTimes : t >= clock} :
        LET rs == IF snap.present THEN <<snapshot_row(now, snap)>> ELSE <<>>
        IN  /\ clock' = now
            /\ rows' = [rows EXCEPT ![p] = rs]
            /\ pc' = [pc EXCEPT ![p] = Enter(p, "snap", rs)]
    /\ UNCHANGED <<g, script, venue, sheet, dates, lastdt, fund, upd, hist, m>>

\* align_bybit_interest_to_funding: the one read and the list of updates
AlignRead(p) ==
    /\ pc[p] = "align"
    /\ \E res \in StoreResults :
        IF res = "returned"
        THEN LET updates == align_updates(ws_get(sheet, 4))
             IN  /\ upd' = [upd EXCEPT ![p] = updates]
                 /\ pc' = [pc EXCEPT ![p] = IF updates = <<>> THEN "done" ELSE "align_write"]
        ELSE /\ pc' = [pc EXCEPT ![p] = "failed"]
             /\ UNCHANGED upd
    /\ UNCHANGED <<g, script, venue, sheet, dates, lastdt, rows, fund, clock, hist, m>>

\* align_bybit_interest_to_funding: one gs_retry(ws.update_cell, row_idx, 4, val)
AlignWrite(p) ==
    /\ pc[p] = "align_write"
    /\ \E res \in StoreResults :
        IF res = "returned"
        THEN /\ sheet' = update_cell(sheet, Head(upd[p]).row, 4, Head(upd[p]).val)
             /\ upd' = [upd EXCEPT ![p] = Tail(@)]
             /\ pc' = [pc EXCEPT ![p] = IF Tail(upd[p]) = <<>> THEN "done" ELSE "align_write"]
        ELSE /\ pc' = [pc EXCEPT ![p] = "failed"]
             /\ UNCHANGED <<sheet, upd>>
    /\ UNCHANGED <<g, script, venue, dates, lastdt, rows, fund, clock, hist, m>>

Next ==
    \/ \E p \in DOMAIN pc : StartRun(p)
    \/ \E p \in DOMAIN pc : ReadWatermark(p)
    \/ \E p \in DOMAIN pc : BuildRows(p)
    \/ \E p \in DOMAIN pc : LoadDates(p)
    \/ \E p \in DOMAIN pc : WriteRows(p)
    \/ \E p \in DOMAIN pc : Snapshot(p)
    \/ \E p \in DOMAIN pc : AlignRead(p)
    \/ \E p \in DOMAIN pc : AlignWrite(p)

Spec == Init /\ [][Next]_vars

\* C1: whatever the upstream batches are, also when two events of one batch
\* format to the same date string, no two stored rows of the partition carry
\* the same non-empty primary key (the partition started with distinct keys).
C1_KeysUnique == KeysDistinct(sheet)

\* C2 as stated: a run that fetched the funding history the previous, completed
\* run fetched appends no row at all to the partition.
C2_NoRowAtAll ==
    \A p \in DOMAIN pc :
        (pc[p] = "done" /\ hist.same) => hist.addedFund + hist.addedSnap = 0

\* C2 as amended: a run that fetched the funding history the previous,
\* completed run fetched appends no funding row; the only row it may append is
\* the one interest snapshot row of a Bybit pass, keyed by the current second.
C2_NoFundingRow ==
    hist.same =>
        /\ hist.addedFund = 0
        /\ hist.addedSnap <= 1
        /\ venue = "Binance" => hist.addedSnap = 0

C2_Witness ==
    /\ pc[1] = "done"
    /\ hist.same
    /\ hist.prevFund # <<>>
    /\ hist.prevAdded > 1
    /\ rows[1] # <<>>
    /\ hist.addedSnap = 1

\* C9: the watermark computed at the start of a run is at most the watermark
\* computed at the start of every later run (None below every timestamp).
C9_WatermarkMonotone ==
    \A i, j \in 1..Len(hist.wms) : i <= j => hist.wms[i] <= hist.wms[j]

C9_Witness ==
    /\ Len(hist.wms) = 2
    /\ hist.wms[1] # NoneDt
    /\ hist.wms[1] < hist.wms[2]
    /\ hist.prevAdded > 0

\* C14: the interest-only snapshot row a Bybit pass has just appended carries
\* the current timestamp and the interest percentage only: its funding APR
\* cell, its reverse funding APR cell and every cell after the interest cell
\* are empty in the store.
C14_SnapshotInterestOnly ==
    \A p \in DOMAIN pc :
        (pc[p] = "align" /\ hist.addedSnap = 1) =>
            LET stored == sheet[Len(sheet)]
            IN  /\ stored[1] = fmt_dt(clock)
                /\ stored[2] = ""
                /\ stored[3] = ""
                /\ \A j \in 5..RowWidth : stored[j] = ""

\* C15: when a Bybit pass whose store calls all succeeded has ended, having
\* appended funding rows and then an interest snapshot row with an interest
\* value (every timestamp of the model's pass is within the maximum gap of the
\* others), the interest cell of each of those funding rows is filled.
C15_BackfillAfterPass ==
    \A p \in DOMAIN pc :
        (pc[p] = "done" /\ venue = "Bybit" /\ hist.addedFund > 0 /\ hist.addedSnap = 1
            /\ ~IsBlank(sheet[Len(sheet)][4])) =>
            \A i \in (Len(sheet) - hist.addedFund)..(Len(sheet) - 1) : ~IsBlank(sheet[i][4])

\* The rows the current run and the run before it have appended: the program
\* only appends, so they are the last rows of the sheet.
WrittenIdx == {i \in 1..Len(sheet) :
                  i > Len(sheet) - (hist.prevAdded + hist.addedFund + hist.addedSnap)}

\* C19, the serialized half: when the runs execute one after the other, no
\* primary key is written twice (the other half, an interleaving of two
\* unserialized runs that writes a key twice, is a behaviour of SpecConcurrent).
C19_SerializedWritesOnce ==
    \A i, j \in WrittenIdx : i # j => sheet[i][1] # sheet[j][1]

\* The partition holds only rows the current run and the run before it wrote.
ProgramOnly == Len(sheet) = hist.prevAdded + hist.addedFund + hist.addedSnap
\* A stored row with nothing after its interest cell: a snapshot row, not the
\* row of a funding event (that one has its collateral cells set).
IsInterestOnly(r) == \A j \in 5..RowWidth : r[j] = ""
FundingRowAt(dt) ==
    \E i \in 1..Len(sheet) : ~IsInterestOnly(sheet[i]) /\ _parse_dt(sheet[i][1]) = dt

\* C20: on a partition written only by the program, every watermark a run
\* computed is None or the timestamp of a stored funding-event row, never that
\* of an interest-only snapshot row; so when the second run has ended, every
\* well-formed event it fetched is stored unless a stored funding-event row is
\* at or after it.
C20_WatermarkIsFundingRow ==
    ProgramOnly =>
        /\ \A k \in 1..Len(hist.wms) : hist.wms[k] # NoneDt => FundingRowAt(hist.wms[k])
        /\ \A p \in DOMAIN pc :
            (pc[p] = "done" /\ hist.runs = 2) =>
                \A i \in 1..Len(fund[p]) :
                    WellFormed(fund[p][i]) =>
                        \/ fmt_dt(fund[p][i].t) \in StoreKeys(sheet)
                        \/ \E dt \in Seconds : dt >= fund[p][i].t \div SecMs /\ FundingRowAt(dt)

\* The run of process p has an entry in _EXISTING_DATES_CACHE and every key of
\* it is a key of a stored row. The runs being serialized and the program only
\* appending rows, the keys read on first access and the keys of the rows
\* written since are all keys of the partition.
CacheWithinStore(p) == dates[p].loaded => dates[p].s \subseteq StoreKeys(sheet)
\* The cached set is the set of the non-empty keys of the partition.
CacheEqualsStore(p) == dates[p].loaded => dates[p].s = StoreKeys(sheet)
\* The run of p has ended on an exception of the append_rows call, its keys
\* merged into the cache beforehand.
WriteFailed(p) ==
    /\ pc[p] = "failed"
    /\ dates[p].loaded
    /\ \E k \in 1..Len(rows[p]) : rows[p][k] # <<>> /\ Str(rows[p][k][1]) \notin StoreKeys(sheet)

\* C21: with the runs serialized (no other writer), in every state, the state
\* after a failed batched write included, every key of the cached
\* duplicate-key set is the key of a stored row (read on first access or
\* written since), and in every state a call of append_new_unique_rows has
\* returned to, the cached set equals the set of non-empty keys of the
\* partition.
C21_CacheCoherent ==
    \A p \in DOMAIN pc :
        /\ CacheWithinStore(p)
        /\ pc[p] # "failed" => CacheEqualsStore(p)

\* The part of C21 that holds: coherence in every state but the one a failed
\* batched write leaves behind.
CacheCoherentUnlessWriteFailed ==
    \A p \in DOMAIN pc :
        /\ ~WriteFailed(p) => CacheWithinStore(p)
        /\ pc[p] # "failed" => CacheEqualsStore(p)

\* --------------------------------- specification: call sequences of one run
\* One run calls get_existing_dates_set, get_last_funding_dt and
\* append_new_unique_rows in any order with any row lists, each call running to
\* its end, while another writer may change the partition between two calls.
CallRowSet ==
    {SheetRow(a, b, "") : a \in {fmt_dt(T1), fmt_dt(T3), "n/a", ""}, b \in {"", " ", "5"}}
CallSheets == {sh \in SeqsUpTo(CallRowSet, MaxInitRows) : KeysDistinct(sh)}

\* Candidate rows: one field only, the same key with more fields, a row of 12
\* fields, and an empty row.
LongRow ==
    << PyStr(fmt_dt(T2)), PyNum(1), PyNum(-1), PyNone, PyNum(2), PyNum(3), PyNum(4), PyNum(5),
       PyNum(6), PyNum(7), PyNum(8), PyNum(9) >>
CandidateRows == {<<PyStr(fmt_dt(T1))>>, <<PyStr(fmt_dt(T1)), PyNum(7)>>, LongRow, <<>>}
CandidateLists == SeqsUpTo(CandidateRows, MaxBatch)

\* What another writer may do to the partition: add a row, or clear the first key.
OtherRow == SheetRow(fmt_dt(TGap), "9", "")

InitCalls ==
    /\ g = gs_frame0
    /\ script = <<>>
    /\ venue = "Bybit"
    /\ sheet \in CallSheets
    /\ pc = [p \in {1} |-> "run"]
    /\ dates = [p \in {1} |-> NoDates]
    /\ lastdt = [p \in {1} |-> NoLastDt]
    /\ rows = [p \in {1} |-> <<>>]
    /\ fund = [p \in {1} |-> <<>>]
    /\ upd = [p \in {1} |-> <<>>]
    /\ clock = T2
    /\ hist = [calls |-> 0, op |-> "none", reads |-> 0, firstKeys |-> {}, accepted |-> {},
               changed |-> FALSE, returned |-> {}, wmReads |-> 0, wmSheet |-> <<>>,
               cand |-> <<>>, before |-> {}, written |-> <<>>,
               stored |-> <<>>, appendReads |-> 0, appendWrites |-> 0]
    /\ MatchIdle

CallReady == pc[1] = "run" /\ hist.calls < MaxCalls
\* appendReads and appendWrites count the gs_retry calls of the latest
\* append_new_unique_rows call: its ws.col_values and its ws.append_rows;
\* stored is what its ws.append_rows added to the sheet.
Called(h, op) ==
    [h EXCEPT !.calls = @ + 1, !.op = op, !.appendReads = 0, !.appendWrites = 0]
CallFrame == <<g, script, venue, rows, fund, upd, clock, m>>

\* The store read of get_existing_dates_set, noted in the history.
DatesRead(h) ==
    IF dates[1].loaded THEN h
    ELSE [h EXCEPT !.reads = @ + 1, !.firstKeys = StoreKeys(sheet)]

\* get_existing_dates_set(ws)
CallDates ==
    /\ CallReady
    /\ \E res \in StoreResults :
        IF dates[1].loaded \/ res = "returned"
        THEN /\ dates' = [dates EXCEPT ![1] = get_existing_dates_set(dates[1], sheet)]
             /\ hist' = [Called(DatesRead(hist), "dates") EXCEPT !.returned = dates'[1].s]
             /\ pc' = pc
        ELSE /\ pc' = [pc EXCEPT ![1] = "failed"]
             /\ hist' = Called(hist, "raised")
             /\ dates' = dates
    /\ UNCHANGED <<sheet, lastdt>>
    /\ UNCHANGED CallFrame

\* get_last_funding_dt(ws)
CallLastDt ==
    /\ CallReady
    /\ \E res \in StoreResults :
        IF lastdt[1].loaded \/ res = "returned"
        THEN /\ lastdt' = [lastdt EXCEPT ![1] = get_last_funding_dt(lastdt[1], sheet)]
             /\ hist' = [Called(hist, "lastdt") EXCEPT
                            !.wmReads = IF lastdt[1].loaded THEN @ ELSE @ + 1,
                            !.wmSheet = IF lastdt[1].loaded THEN @ ELSE sheet]
             /\ pc' = pc
        ELSE /\ pc' = [pc EXCEPT ![1] = "failed"]
             /\ hist' = Called(hist, "raised")
             /\ lastdt' = lastdt
    /\ UNCHANGED <<sheet, dates>>
    /\ UNCHANGED CallFrame

\* append_new_unique_rows(ws, rs)
CallAppend ==
    /\ CallReady
    /\ \E rs \in CandidateLists, res1 \in StoreResults, res2 \in StoreResults :
        IF rs = <<>>
        THEN /\ hist' = Called(hist, "append_none")
             /\ UNCHANGED <<sheet, dates, pc>>
        ELSE IF ~dates[1].loaded /\ res1 = "raised"
        THEN /\ pc' = [pc EXCEPT ![1] = "failed"]
             /\ hist' = [Called(hist, "raised") EXCEPT !.appendReads = 1]
             /\ UNCHANGED <<sheet, dates>>
        ELSE LET existing == get_existing_dates_set(dates[1], sheet)
                 plan == append_new_unique_rows(rs, existing.s)
                 noted == [DatesRead(hist) EXCEPT !.cand = rs, !.before = existing.s,
                                                  !.accepted = @ \cup (plan.existing \ existing.s)]
                 nreads == IF dates[1].loaded THEN 0 ELSE 1
             IN  IF plan.out = <<>>
                 THEN /\ dates' = [dates EXCEPT ![1] = existing]
                      /\ hist' = [Called(noted, "append") EXCEPT
                                     !.written = <<>>, !.stored = <<>>, !.appendReads = nreads]
                      /\ UNCHANGED <<sheet, pc>>
                 ELSE /\ dates' = [dates EXCEPT ![1] = [existing EXCEPT !.s = plan.existing]]
                      /\ IF res2 = "returned"
                         THEN /\ sheet' = append_rows(sheet, plan.out)
                              /\ hist' = [Called(noted, "append") EXCEPT
                                             !.written = plan.out,
                                             !.stored = SubSeq(sheet', Len(sheet) + 1, Len(sheet')),
                                             !.appendReads = nreads, !.appendWrites = 1]
                              /\ pc' = pc
                         ELSE /\ pc' = [pc EXCEPT ![1] = "failed"]
                              /\ hist' = [Called(noted, "raised") EXCEPT
                                             !.appendReads = nreads, !.appendWrites = 1]
                              /\ sheet' = sheet
    /\ UNCHANGED lastdt
    /\ UNCHANGED CallFrame

\* Another writer adds a row to the partition, or clears the key of its first row.
OtherWriter ==
    /\ pc[1] = "run"
    /\ ~hist.changed
    /\ \/ sheet' = Append(sheet, OtherRow)
       \/ /\ sheet # <<>>
          /\ sheet[1][1] # ""
          /\ sheet' = [sheet EXCEPT ![1][1] = ""]
    /\ hist' = [hist EXCEPT !.changed = TRUE]
    /\ UNCHANGED <<dates, lastdt, pc>>
    /\ UNCHANGED CallFrame

NextCalls == CallDates \/ CallLastDt \/ CallAppend \/ OtherWriter

SpecCalls == InitCalls /\ [][NextCalls]_vars

RECURSIVE AcceptInTurn(_, _)
\* The candidates accepted when each is examined after the key of every
\* candidate accepted before it was merged into the set seen.
AcceptInTurn(rs, seen) ==
    IF rs = <<>> THEN <<>>
    ELSE LET r == Head(rs) IN
         IF r # <<>> /\ Str(r[1]) \notin seen
         THEN <<Normalize(r)>> \o AcceptInTurn(Tail(rs), seen \cup {Str(r[1])})
         ELSE AcceptInTurn(Tail(rs), seen)

\* C3: the rows one append_new_unique_rows call writes are the candidates whose
\* key is absent from the cached set, in input order, each accepted key being
\* merged before the next candidate is examined: of two candidates of the batch
\* with the same key only the first is written.
C3_FirstOfEachKey ==
    hist.op = "append" => hist.written = AcceptInTurn(hist.cand, hist.before)

\* C6: in one run the key column is read from the store at most once; the
\* cached set is the set of the non-empty keys of the data rows at that read
\* (no header entry) plus the keys the run's own appends accepted, whatever
\* another writer did to the store since; a later get_existing_dates_set
\* returns that set.
C6_SingleRead ==
    /\ hist.reads <= 1
    /\ dates[1].loaded =>
        /\ hist.reads = 1
        /\ dates[1].s = hist.firstKeys \cup hist.accepted
    /\ hist.op = "dates" => hist.returned = dates[1].s

C6_Witness ==
    /\ hist.op = "dates"
    /\ hist.calls = 3
    /\ hist.reads = 1
    /\ hist.changed
    /\ hist.firstKeys # {}
    /\ hist.returned # StoreKeys(sheet)
    /\ HEADERS[1] \notin hist.returned

\* The latest datetime among the rows of sh whose key parses and whose
\* funding cell is not blank; None when there is no such row.
Qualifying(sh) ==
    {_parse_dt(sh[i][1]) : i \in {k \in 1..Len(sh) : ~IsBlank(sh[k][2])}} \ {NoneDt}
LatestQualifying(sh) ==
    IF Qualifying(sh) = {} THEN NoneDt
    ELSE CHOOSE t \in Qualifying(sh) : \A u \in Qualifying(sh) : u <= t

\* C10: get_last_funding_dt reads the store once in a run; its value is the
\* latest timestamp among the rows, as they were at that read, whose date
\* parses and whose funding cell is not blank, None when there is none; every
\* later call of the run has that value, also after rows were appended.
C10_WatermarkValue ==
    /\ hist.wmReads <= 1
    /\ lastdt[1].loaded =>
        /\ hist.wmReads = 1
        /\ lastdt[1].dt = LatestQualifying(hist.wmSheet)

C10_Witness ==
    /\ hist.op = "lastdt"
    /\ hist.calls = 3
    /\ hist.wmReads = 1
    /\ \E i \in 1..Len(hist.wmSheet) : hist.wmSheet[i][1] = "n/a" /\ hist.wmSheet[i][2] = "5"
    /\ Len(hist.wmSheet) = 2
    /\ lastdt[1].dt # NoneDt
    /\ LatestQualifying(sheet) > lastdt[1].dt

\* r cut to 11 fields, or filled up to 11 fields with the empty string.
IsWidened(row, r) ==
    /\ Len(row) = 11
    /\ \A j \in 1..11 : row[j] = IF j <= Len(r) THEN r[j] ELSE PyStr("")

\* C12: every row an append_new_unique_rows call writes has exactly 11 fields:
\* it is a candidate of the call with its fields in order, cut after the 11th
\* or followed by empty values, and it is stored as 11 cells, the added ones
\* empty; the rows of the call go to the store in one ws.append_rows call, no
\* such call is made when no row is accepted, and an empty row list causes no
\* store call at all.
C12_RowNormalization ==
    /\ hist.op = "append" =>
        /\ \A k \in 1..Len(hist.written) :
            /\ \E i \in 1..Len(hist.cand) : IsWidened(hist.written[k], hist.cand[i])
            /\ Len(hist.stored[k]) = 11
            /\ \A j \in 1..11 : hist.stored[k][j] = CellOf(hist.written[k][j])
        /\ Len(hist.stored) = Len(hist.written)
        /\ hist.appendWrites = IF hist.written = <<>> THEN 0 ELSE 1
    /\ hist.op = "append_none" => hist.appendReads = 0 /\ hist.appendWrites = 0
    /\ hist.appendWrites <= 1

C12_Witness ==
    /\ hist.op = "append"
    /\ hist.cand = <<LongRow, <<PyStr(fmt_dt(T1))>>>>
    /\ Len(hist.written) = 2
    /\ hist.appendWrites = 1
    /\ hist.stored[2] = SheetRow(fmt_dt(T1), "", "")
    /\ Len(hist.stored[1]) = 11

\* ------------------------------------ specification: one reconciliation call
\* align_bybit_interest_to_funding runs once, to its end, over a partition of
\* any content: snapshot rows (funding blank, interest a number), target rows
\* (funding set, interest blank), rows that are neither, keys that do not
\* parse, keys a second, the maximum gap and more than the gap apart.
AlignRowSet ==
    {SheetRow(a, c[1], c[2]) :
        a \in {fmt_dt(T1), fmt_dt(T2), fmt_dt(T3), fmt_dt(TGap), fmt_dt(TGap1)},
        c \in {<<"", "3">>, <<"", "4">>, <<"5", "">>, <<"5", "4">>}}
    \cup { SheetRow("n/a", "5", ""), SheetRow(fmt_dt(T2), " ", "1,000"),
           SheetRow(fmt_dt(T2), "5", " "), SheetRow(fmt_dt(T3), "", "n/a") }
AlignSheets == SeqsUpTo(AlignRowSet, MaxSeries)

InitAlign ==
    /\ g = gs_frame0
    /\ script = <<>>
    /\ venue = "Bybit"
    /\ sheet \in AlignSheets
    /\ pc = [p \in {1} |-> "align"]
    /\ dates = [p \in {1} |-> NoDates]
    /\ lastdt = [p \in {1} |-> NoLastDt]
    /\ rows = [p \in {1} |-> <<>>]
    /\ fund = [p \in {1} |-> <<>>]
    /\ upd = [p \in {1} |-> <<>>]
    /\ clock = T2
    /\ hist = [before |-> <<>>, updates |-> <<>>, applied |-> 0]
    /\ MatchIdle

RECURSIVE ApplyUpdates(_, _, _)
\* The first n of the update_cell calls of align's last loop.
ApplyUpdates(sh, updates, n) ==
    IF n = 0 THEN sh
    ELSE ApplyUpdates(update_cell(sh, Head(updates).row, 4, Head(updates).val),
                      Tail(updates), n - 1)

\* align_bybit_interest_to_funding(ws): the read, then the updates one by one;
\* a store call that raises ends the invocation where it stands.
Align ==
    /\ pc[1] = "align"
    /\ \E res \in StoreResults :
        IF res = "raised"
        THEN /\ pc' = [pc EXCEPT ![1] = "failed"]
             /\ hist' = [hist EXCEPT !.before = sheet]
             /\ UNCHANGED sheet
        ELSE LET updates == align_updates(ws_get(sheet, 4))
             IN  \E n \in 0..Len(updates), last \in StoreResults :
                    /\ (last = "raised") = (n < Len(updates))
                    /\ sheet' = ApplyUpdates(sheet, updates, n)
                    /\ pc' = [pc EXCEPT ![1] = IF n < Len(updates) THEN "failed" ELSE "done"]
                    /\ hist' = [before |-> sheet, updates |-> updates, applied |-> n]
    /\ UNCHANGED <<g, script, venue, dates, lastdt, rows, fund, upd, clock, m>>

NextAlign == Align

SpecAlign == InitAlign /\ [][NextAlign]_vars

\* C7: after one invocation of align_bybit_interest_to_funding every cell that
\* differs from the snapshot it read is the interest cell of a row whose
\* funding cell was set, and was blank (empty after strip()) in that snapshot:
\* no cell holding a value and no cell outside the interest column changed,
\* and no row was added or removed.
C7_FillsOnlyBlankInterest ==
    pc[1] \in {"done", "failed"} =>
        /\ Len(sheet) = Len(hist.before)
        /\ \A i \in 1..Len(sheet) : \A j \in 1..RowWidth :
               sheet[i][j] # hist.before[i][j] =>
                   /\ j = 4
                   /\ IsBlank(hist.before[i][4])
                   /\ ~IsBlank(hist.before[i][2])

C7_Witness ==
    /\ pc[1] = "done"
    /\ Len(sheet) = 3
    /\ hist.applied = 1
    /\ \E i \in 1..3 : hist.before[i][4] = "" /\ sheet[i][4] = "3"
    /\ \E i \in 1..3 : hist.before[i][2] = "5" /\ hist.before[i][4] = "4"

\* Row i of the snapshot sh holds a timestamp; its distance to row j.
RowTime(sh, i) == _to_ms(sh[i][1])
RowsWithinGap(sh, i, j) == Abs(RowTime(sh, i) - RowTime(sh, j)) <= gap_ms

\* C16: one completed invocation of align_bybit_interest_to_funding has filled
\* both kinds of target of the snapshot it read: the interest cell of a row
\* with a funding value and no interest value, when an interest snapshot row
\* is within the gap, and the funding cell of a row with an interest value and
\* no funding value, when a funding row is within the gap.
C16_FillsBothSides ==
    pc[1] = "done" =>
        \A i \in 1..Len(hist.before) :
            /\ (/\ IsTarget(hist.before, i)
                /\ \E j \in 1..Len(hist.before) :
                       IsSnap(hist.before, j) /\ RowsWithinGap(hist.before, i, j))
                   => ~IsBlank(sheet[i][4])
            /\ (/\ IsSnap(hist.before, i)
                /\ \E j \in 1..Len(hist.before) :
                       /\ AlignTimed(hist.before, j)
                       /\ ~IsBlank(hist.before[j][2])
                       /\ RowsWithinGap(hist.before, i, j))
                   => ~IsBlank(sheet[i][2])

\* --------------------------------------------- specification: nearest match
\* One target is matched against one ascending reference series under one
\* maximum gap.
Samples == {[t |-> t, v |-> v] : t \in {100, 200, 5000}, v \in {1, 2}}
SeriesSet ==
    {S \in SeqsUpTo(Samples, MaxSeries) : \A i \in 1..Len(S) - 1 : S[i].t <= S[i + 1].t}
Targets == {100, 140, 150, 160, 200, 1200, 5000}
Gaps == {50, 1000}

InitMatch ==
    /\ g = gs_frame0
    /\ script = <<>>
    /\ RestIdle
    /\ \E S \in SeriesSet, t \in Targets, gap \in Gaps :
        m = [S |-> S, t |-> t, gap |-> gap, done |-> FALSE, hit |-> <<>>, rate |-> <<>>]

\* The body of align's loop for the target, and pick_closest_rate for it.
Match ==
    /\ ~m.done
    /\ m' = [m EXCEPT !.done = TRUE,
                      !.hit = match(m.S, m.t, m.gap),
                      !.rate = pick_closest_rate(m.S, m.t)]
    /\ UNCHANGED <<g, script, venue, sheet, pc, dates, lastdt, rows, fund, upd, clock, hist>>

NextMatch == Match

SpecMatch == InitMatch /\ [][NextMatch]_vars

Dist(p, t) == Abs(p.t - t)
Nearest(S, t) == {p \in Range(S) : \A q \in Range(S) : Dist(p, t) <= Dist(q, t)}

\* C8: the sample chosen for a target is at the least distance over the whole
\* series; when a sample at or before the target is at that distance the
\* chosen one is at or before the target; an update with the chosen sample's
\* value is produced exactly when that distance is within the maximum gap, and
\* none for an empty series.  pick_closest_rate chooses the same way, with no gap.
C8_NearestWithinGap ==
    m.done =>
        /\ m.S = <<>> => m.hit = <<>> /\ m.rate = <<>>
        /\ m.S # <<>> =>
            /\ m.rate # <<>>
            /\ \E p \in Nearest(m.S, m.t) :
                /\ p.v = m.rate[1]
                /\ (\E q \in Nearest(m.S, m.t) : q.t <= m.t) => p.t <= m.t
                /\ m.hit = IF Dist(p, m.t) <= m.gap THEN <<p>> ELSE <<>>

C8_Witness ==
    /\ m.done
    /\ m.S = <<[t |-> 100, v |-> 1], [t |-> 200, v |-> 2]>>
    /\ m.gap = 1000
    /\ m.t = 150
    /\ m.hit = <<[t |-> 100, v |-> 1]>>

\* ------------------------------------------- specification: derived metrics
\* collateral_needed_usdt and liquidation_start_price are each called once
\* with any arguments: absent (None), zero, negative or positive.  Amounts and
\* prices are whole numbers, LTVs are in hundredths.
Amounts == {<<>>, <<0>>, <<-1000>>, <<100>>, <<1000>>, <<2000>>}
Ltvs == {<<>>, <<0>>, <<-50>>, <<40>>, <<50>>, <<80>>}

\* Whether the evaluation of collateral_needed_usdt raises: a comparison with
\* None (TypeError) or a division by zero, were either reached.
collateral_needed_raises(loan_usd, init_ltv) ==
    IF ~Truthy(loan_usd) THEN FALSE
    ELSE IF ~Truthy(init_ltv) THEN FALSE
    ELSE IF init_ltv = <<>> THEN TRUE
    ELSE IF init_ltv[1] <= 0 THEN FALSE
    ELSE init_ltv[1] = 0

\* Whether the evaluation of liquidation_start_price raises.
liquidation_start_raises(spot, init_ltv, liq_ltv) ==
    IF ~Truthy(spot) THEN FALSE
    ELSE IF spot = <<>> THEN TRUE
    ELSE IF spot[1] <= 0 THEN FALSE
    ELSE IF ~Truthy(init_ltv) THEN FALSE
    ELSE IF ~Truthy(liq_ltv) THEN FALSE
    ELSE init_ltv[1] = 0

InitMetrics ==
    /\ g = gs_frame0
    /\ script = <<>>
    /\ RestIdle
    /\ \E a \in Amounts, i \in Ltvs, l \in Ltvs :
        m = [fn |-> "none", amount |-> a, init_ltv |-> i, liq_ltv |-> l,
             out |-> <<>>, raised |-> FALSE]

\* j_collat = collateral_needed_usdt(amount, init_ltv)
CallCollateral ==
    /\ m.fn = "none"
    /\ m' = [m EXCEPT !.fn = "collateral",
                      !.raised = collateral_needed_raises(m.amount, m.init_ltv),
                      !.out = IF collateral_needed_raises(m.amount, m.init_ltv) THEN <<>>
                              ELSE collateral_needed_usdt(m.amount, m.init_ltv)]
    /\ UNCHANGED <<g, script, venue, sheet, pc, dates, lastdt, rows, fund, upd, clock, hist>>

\* k_liq = liquidation_start_price(amount, init_ltv, liq_ltv)
CallLiquidation ==
    /\ m.fn = "none"
    /\ m' = [m EXCEPT !.fn = "liquidation",
                      !.raised = liquidation_start_raises(m.amount, m.init_ltv, m.liq_ltv),
                      !.out = IF liquidation_start_raises(m.amount, m.init_ltv, m.liq_ltv)
                              THEN <<>>
                              ELSE liquidation_start_price(m.amount, m.init_ltv, m.liq_ltv)]
    /\ UNCHANGED <<g, script, venue, sheet, pc, dates, lastdt, rows, fund, upd, clock, hist>>

NextMetrics == CallCollateral \/ CallLiquidation

SpecMetrics == InitMetrics /\ [][NextMetrics]_vars

ZeroOrAbsent(x) == x = <<>> \/ x[1] = 0
\* q is a / b in the model's whole numbers: the quotient rounded down.
IsQuotient(q, a, b) ==
    LET r == a - q * b IN IF b > 0 THEN 0 <= r /\ r < b ELSE b < r /\ r <= 0

\* C11: collateral_needed_usdt is absent exactly when the loan is zero or
\* absent, or the initial LTV is zero, absent or negative, and is loan /
\* init_ltv otherwise; liquidation_start_price is absent exactly when the spot
\* is absent or <= 0 or either LTV is zero or absent, and is spot * (liq_ltv /
\* init_ltv) otherwise (in the model's whole numbers, rounded down); neither
\* raises.
C11_DerivedMetrics ==
    /\ ~m.raised
    /\ m.fn = "collateral" =>
        LET none == ZeroOrAbsent(m.amount) \/ ZeroOrAbsent(m.init_ltv) \/ m.init_ltv[1] <= 0
        IN  /\ (m.out = <<>>) = none
            /\ ~none => IsQuotient(m.out[1], m.amount[1] * LtvScale, m.init_ltv[1])
    /\ m.fn = "liquidation" =>
        LET none == m.amount = <<>> \/ m.amount[1] <= 0
                        \/ ZeroOrAbsent(m.init_ltv) \/ ZeroOrAbsent(m.liq_ltv)
        IN  /\ (m.out = <<>>) = none
            /\ ~none => IsQuotient(m.out[1], m.amount[1] * m.liq_ltv[1], m.init_ltv[1])

C11_Witness ==
    /\ m.fn = "liquidation"
    /\ m.amount = <<100>>
    /\ m.init_ltv = <<50>>
    /\ m.liq_ltv = <<40>>
    /\ m.out = <<80>>

\* ---------------------------------------------- specification: row building
\* One call of build_binance_rows_since or build_bybit_rows_since, for any
\* fetched funding history (records in any order, with a rate or a timestamp
\* that does not parse among them), any watermark and either auxiliary input.
BuildEvents == Events \cup {[t |-> NoneDt, rate |-> <<1>>]}
BuildBatches == SeqsUpTo(BuildEvents, MaxFetched)
Watermarks == {NoneDt, T1 \div SecMs, T2 \div SecMs}

InitBuild ==
    /\ g = gs_frame0
    /\ script = <<>>
    /\ RestIdle
    /\ \E v \in {"Binance", "Bybit"}, f \in BuildBatches, w \in Watermarks, x \in AuxInputs :
        m = [venue |-> v, fund |-> f, after_dt |-> w, x |-> x,
             done |-> FALSE, ok |-> FALSE, rows |-> <<>>]

\* rows = build_binance_rows_since(tk, last_dt, bn_usdt)
BuildBinance ==
    /\ ~m.done
    /\ m.venue = "Binance"
    /\ LET built == build_binance_rows_since(m.fund, m.after_dt, m.x)
       IN  m' = [m EXCEPT !.done = TRUE, !.ok = built.ok, !.rows = built.rows]
    /\ UNCHANGED <<g, script, venue, sheet, pc, dates, lastdt, rows, fund, upd, clock, hist>>

\* rows = build_bybit_rows_since(tk, last_dt)
BuildBybit ==
    /\ ~m.done
    /\ m.venue = "Bybit"
    /\ LET built == build_bybit_rows_since(m.fund, m.after_dt, m.x)
       IN  m' = [m EXCEPT !.done = TRUE, !.ok = built.ok, !.rows = built.rows]
    /\ UNCHANGED <<g, script, venue, sheet, pc, dates, lastdt, rows, fund, upd, clock, hist>>

NextBuild == BuildBinance \/ BuildBybit

SpecBuild == InitBuild /\ [][NextBuild]_vars

\* The records of a fetched history a row is due for: timestamp and rate parse,
\* and the second the timestamp falls in is after the watermark, if there is one.
Qualifies(e, after_dt) ==
    e.t # NoneDt /\ e.rate # <<>> /\ (after_dt = NoneDt \/ e.t \div SecMs > after_dt)
QualifyingIdx(f, after_dt) == {i \in 1..Len(f) : Qualifies(f[i], after_dt)}

\* C13: for both venues, a fetched history with a record whose timestamp or
\* rate is missing or does not parse is built without an error: that record is
\* skipped and every other qualifying record gets its row.
C13_MalformedSkipped ==
    m.done =>
        /\ m.ok
        /\ Len(m.rows) = Cardinality(QualifyingIdx(m.fund, m.after_dt))
        /\ \A i \in QualifyingIdx(m.fund, m.after_dt) :
               \E k \in 1..Len(m.rows) : m.rows[k][1] = PyStr(fmt_dt(m.fund[i].t))

\* The datetime of the key of a built row.
RowDt(r) == _parse_dt(Str(r[1]))

\* C17: for every fetched history and every watermark the rows built are
\* exactly one per well-formed record whose timestamp (to the second, as the
\* key and the watermark hold it) is after the watermark, every such record
\* when there is no watermark, and they are in ascending order of timestamp.
C17_WatermarkFilter ==
    m.done =>
        /\ m.ok
        /\ \A t \in Seconds :
               Cardinality({k \in 1..Len(m.rows) : RowDt(m.rows[k]) = t})
                   = Cardinality({i \in QualifyingIdx(m.fund, m.after_dt) :
                                      m.fund[i].t \div SecMs = t})
        /\ \A k \in 1..Len(m.rows) : RowDt(m.rows[k]) # NoneDt
        /\ \A k, l \in 1..Len(m.rows) : k < l => RowDt(m.rows[k]) <= RowDt(m.rows[l])

\* --------------------------------------------- specification: upstream fetch
\* _http_json(url, ..., retries=3): the default retry budget
HTTP_RETRIES == 3

\* What one requests.get of _http_json may meet: a status other than 200, an
\* exception of the transport, a 200 whose body r.json() cannot decode, or a
\* 200 whose body decodes to the endpoint's answer with no record or one.
Payload ==
    [t |-> T1, rate |-> <<1>>, init_ltv |-> 50, liq_ltv |-> 40, cap |-> 5000, loan |-> 1000,
     price |-> 100, apr |-> 3]
Responses ==
    { [kind |-> "non200", items |-> <<>>], [kind |-> "exception", items |-> <<>>],
      [kind |-> "undecodable", items |-> <<>>], [kind |-> "ok", items |-> <<>>],
      [kind |-> "ok", items |-> <<Payload>>] }

\* result is <<>> for None and <<items>> for a decoded body.
http_frame0 == [n |-> 0, status |-> "running", result |-> <<>>]

\* http_step with no handler around the request: a transport exception or an
\* undecodable body leaves _http_json as an exception.
http_step_nocatch(f, resp) ==
    LET asked == [f EXCEPT !.n = @ + 1] IN
    IF resp.kind = "ok" THEN [asked EXCEPT !.status = "returned", !.result = <<resp.items>>]
    ELSE IF resp.kind # "non200" THEN [asked EXCEPT !.status = "raised"]
    ELSE IF asked.n >= HTTP_RETRIES THEN [asked EXCEPT !.status = "returned"]
    ELSE asked

\* One iteration of the for loop of _http_json with the response resp; after
\* the last iteration the function returns None.
http_step(f, resp) ==
    LET asked == [f EXCEPT !.n = @ + 1] IN
    IF resp.kind = "ok" THEN [asked EXCEPT !.status = "returned", !.result = <<resp.items>>]
    ELSE IF asked.n >= HTTP_RETRIES THEN [asked EXCEPT !.status = "returned"]
    ELSE asked

\* The fetchers, each as a function of what its _http_json call returned.
HasRows(j) == j # <<>> /\ j[1] # <<>>
ZeroLtv == [init_ltv |-> 0, liq_ltv |-> 0, cap |-> 0]
LtvOf(r) == [init_ltv |-> r.init_ltv, liq_ltv |-> r.liq_ltv, cap |-> r.cap]
EventsOf(items) == [i \in 1..Len(items) |-> [t |-> items[i].t, rate |-> items[i].rate]]
bn_funding(j) == IF j # <<>> THEN EventsOf(j[1]) ELSE <<>>
bn_interest_history(j) ==
    IF HasRows(j) THEN [i \in 1..Len(j[1]) |-> [t |-> j[1][i].t, v |-> j[1][i].apr]] ELSE <<>>
bn_flexible_loanable(j) == IF HasRows(j) THEN <<j[1][1].loan>> ELSE <<0>>
bn_collateral_usdt(j) == IF HasRows(j) THEN LtvOf(j[1][1]) ELSE ZeroLtv
_bn_kline(j) == IF HasRows(j) THEN <<j[1][1].price>> ELSE <<>>
by_funding_history_from(j) == IF HasRows(j) THEN EventsOf(j[1]) ELSE <<>>
by_collateral_usdt(j) == IF HasRows(j) THEN LtvOf(j[1][1]) ELSE ZeroLtv
by_loan_snapshot(j) == IF HasRows(j) THEN <<j[1][1].loan>> ELSE <<>>
spot_bybit_from_contract_symbol(j) == IF HasRows(j) THEN <<j[1][1].price>> ELSE <<>>

\* The endpoints whose answers the row builders use; the answer every other
\* endpoint gives while one of them is observed.
Endpoints == {"funding", "interest", "loanable", "collateral", "spot"}
Answered == <<<<Payload>>>>

\* The rows of one pass, the endpoint ep having answered j.
rows_after_fetch(v, ep, j) ==
    LET of(e) == IF e = ep THEN j ELSE Answered
        ltv == IF v = "Binance" THEN bn_collateral_usdt(of("collateral"))
               ELSE by_collateral_usdt(of("collateral"))
        x == [spot |-> IF v = "Binance" THEN _bn_kline(of("spot"))
                       ELSE spot_bybit_from_contract_symbol(of("spot")),
              loan |-> IF v = "Binance" THEN bn_flexible_loanable(of("loanable"))
                       ELSE by_loan_snapshot(of("loanable")),
              cap |-> ltv.cap, init_ltv |-> ltv.init_ltv, liq_ltv |-> ltv.liq_ltv,
              hist |-> bn_interest_history(of("interest"))]
    IN  IF v = "Binance" THEN build_binance_rows_since(bn_funding(of("funding")), NoneDt, x)
        ELSE build_bybit_rows_since(by_funding_history_from(of("funding")), NoneDt, x)

InitFetch ==
    /\ g = gs_frame0
    /\ script = <<>>
    /\ RestIdle
    /\ \E v \in {"Binance", "Bybit"}, ep \in Endpoints :
        /\ v = "Bybit" => ep # "interest"
        /\ m = [venue |-> v, endpoint |-> ep, http |-> http_frame0, resps |-> <<>>,
                done |-> FALSE, ok |-> FALSE, rows |-> <<>>]

\* One requests.get inside _http_json.
HttpRequest ==
    /\ m.http.status = "running"
    /\ \E resp \in Responses :
        m' = [m EXCEPT !.http = http_step(m.http, resp), !.resps = Append(@, resp)]
    /\ UNCHANGED <<g, script, venue, sheet, pc, dates, lastdt, rows, fund, upd, clock, hist>>

\* The fetcher takes what _http_json returned and the pass builds its rows.
PassAfterFetch ==
    /\ m.http.status = "returned"
    /\ ~m.done
    /\ LET built == rows_after_fetch(m.venue, m.endpoint, m.http.result)
       IN  m' = [m EXCEPT !.done = TRUE, !.ok = built.ok, !.rows = built.rows]
    /\ UNCHANGED <<g, script, venue, sheet, pc, dates, lastdt, rows, fund, upd, clock, hist>>

NextFetch == HttpRequest \/ PassAfterFetch

SpecFetch == InitFetch /\ [][NextFetch]_vars

AllFailed(rs) == \A i \in 1..Len(rs) : rs[i].kind # "ok"

\* C18: whatever the upstream answers, _http_json makes at most 3 requests
\* and never raises; while every answer was a failure it goes on until the 3rd
\* and then returns None; the pass that gets None from one endpoint still
\* ends without an error: with no row when the funding history is the one
\* missing, else with the row of each event, the fields derived from the
\* missing input being None.
C18_FetchDegrades ==
    /\ m.http.n <= HTTP_RETRIES
    /\ m.http.n = Len(m.resps)
    /\ m.http.status # "raised"
    /\ AllFailed(m.resps) =>
        /\ m.http.result = <<>>
        /\ (m.http.status = "returned") = (Len(m.resps) = HTTP_RETRIES)
    /\ ~AllFailed(m.resps) =>
        m.http.status = "returned" /\ m.http.result = <<m.resps[Len(m.resps)].items>>
    /\ (m.done /\ m.http.result = <<>>) =>
        /\ m.ok
        /\ Len(m.rows) = IF m.endpoint = "funding" THEN 0 ELSE 1
        /\ \A k \in 1..Len(m.rows) :
            /\ m.endpoint = "interest" => m.rows[k][4] = PyNone
            /\ m.endpoint = "loanable" => m.rows[k][10] = PyNone
            /\ m.endpoint = "collateral" => m.rows[k][10] = PyNone /\ m.rows[k][11] = PyNone
            /\ m.endpoint = "spot" => m.rows[k][5] = PyNone /\ m.rows[k][11] = PyNone

C18_Witness ==
    /\ m.done
    /\ m.venue = "Bybit"
    /\ m.endpoint = "collateral"
    /\ Len(m.resps) = 3
    /\ {m.resps[i].kind : i \in 1..3} = {"non200", "exception", "undecodable"}
    /\ m.http.result = <<>>
    /\ Len(m.rows) = 1
    /\ m.rows[1][10] = PyNone

\* ------------------------------------------ specification: concurrent runs
\* Two processes run main() over the same partition with nothing to serialize
\* them: each has its own caches, the sheet is shared, and their steps
\* interleave in any order between two store calls.
InitConcurrent ==
    /\ g = gs_frame0
    /\ script = <<>>
    /\ venue \in {"Binance", "Bybit"}
    /\ sheet \in InitSheets
    /\ pc = [p \in {1, 2} |-> "idle"]
    /\ dates = [p \in {1, 2} |-> NoDates]
    /\ lastdt = [p \in {1, 2} |-> NoLastDt]
    /\ rows = [p \in {1, 2} |-> <<>>]
    /\ fund = [p \in {1, 2} |-> <<>>]
    /\ upd = [p \in {1, 2} |-> <<>>]
    /\ clock = T2
    /\ hist = [runs |-> 0, wms |-> <<>>, prevDone |-> FALSE, prevFund |-> <<>>,
               prevAdded |-> 0, same |-> FALSE, addedFund |-> 0, addedSnap |-> 0]
    /\ MatchIdle

\* A process starts main() whatever the other process is doing.
StartConcurrent(p) ==
    /\ pc[p] = "idle"
    /\ pc' = [pc EXCEPT ![p] = "wm"]
    /\ hist' = [hist EXCEPT !.runs = @ + 1]
    /\ UNCHANGED <<g, script, venue, sheet, dates, lastdt, rows, fund, upd, clock, m>>

NextConcurrent ==
    \/ \E p \in DOMAIN pc : StartConcurrent(p)
    \/ \E p \in DOMAIN pc : ReadWatermark(p)
    \/ \E p \in DOMAIN pc : BuildRows(p)
    \/ \E p \in DOMAIN pc : LoadDates(p)
    \/ \E p \in DOMAIN pc : WriteRows(p)
    \/ \E p \in DOMAIN pc : Snapshot(p)
    \/ \E p \in DOMAIN pc : AlignRead(p)
    \/ \E p \in DOMAIN pc : AlignWrite(p)

SpecConcurrent == InitConcurrent /\ [][NextConcurrent]_vars

\* ------------------------------------------------ specification: termination
\* bn_interest_history(token, max_pages=10, page_size=100): the defaults
max_pages == 10
page_size == 100

\* The bounded and unbounded loops of a run that wait on the store or on
\* upstream, each observed on its own.
Loops == {"gs_retry", "_http_json", "bn_interest_history", "by_funding_history_from"}

\* What a page request may be answered with: a decoded body with its return
\* code, the number of records of its list and its continuation cursor ("" when
\* there is none), or one of the failures of Responses.
PageAnswers ==
    {[retCode |-> rc, n |-> n, cursor |-> c] :
        rc \in {0, 10001}, n \in {0, 1, page_size}, c \in {"", "next"}}
PageResponses ==
    {r \in Responses : r.kind # "ok"} \cup {[kind |-> "ok", items |-> a] : a \in PageAnswers}

\* bn_interest_history, j returned for page number page: the loop goes on to
\* the next page unless j is None or has no rows (break), the page is short
\* (break) or the range is exhausted.
bn_interest_more(page, j) ==
    /\ j # <<>>
    /\ j[1].n > 0
    /\ ~(j[1].n < page_size)
    /\ page < max_pages

\* by_funding_history_from, j returned for a page: the while True loop goes on
\* unless j is None or retCode is not 0, the list is empty or there is no
\* nextPageCursor.
by_funding_more(j) ==
    /\ j # <<>>
    /\ j[1].retCode = 0
    /\ j[1].n > 0
    /\ j[1].cursor # ""

\* The number of page requests, counted up to MaxPagesCounted.
CountPage(n) == IF n < MaxPagesCounted THEN n + 1 ELSE n

InitTerm ==
    /\ g = gs_frame0
    /\ script = <<>>
    /\ RestIdle
    /\ \E fn \in Loops :
        m = [fn |-> fn, http |-> http_frame0, pages |-> IF fn = "gs_retry" THEN 0 ELSE 1,
             cursor |-> "", status |-> "running"]

\* One invocation of the wrapped operation inside gs_retry.
GsCall ==
    /\ m.fn = "gs_retry"
    /\ g.status = "running"
    /\ \E out \in Outcomes :
        /\ g' = gs_step(g, out)
        /\ m' = [m EXCEPT !.status = g'.status]
    /\ UNCHANGED <<script, venue, sheet, pc, dates, lastdt, rows, fund, upd, clock, hist>>

\* One requests.get (timeout=12) inside _http_json, called on its own or for
\* the current page of a pagination loop.
HttpGet ==
    /\ m.fn # "gs_retry"
    /\ m.status = "running"
    /\ m.http.status = "running"
    /\ \E resp \in PageResponses :
        LET f == http_step(m.http, resp)
        IN  m' = [m EXCEPT !.http = f,
                           !.status = IF m.fn = "_http_json" THEN f.status ELSE @]
    /\ UNCHANGED <<g, script, venue, sheet, pc, dates, lastdt, rows, fund, upd, clock, hist>>

\* bn_interest_history: the rest of the loop body once _http_json has returned
BnPage ==
    /\ m.fn = "bn_interest_history"
    /\ m.status = "running"
    /\ m.http.status = "returned"
    /\ m' = IF bn_interest_more(m.pages, m.http.result)
            THEN [m EXCEPT !.pages = @ + 1, !.http = http_frame0]
            ELSE [m EXCEPT !.status = "returned"]
    /\ UNCHANGED <<g, script, venue, sheet, pc, dates, lastdt, rows, fund, upd, clock, hist>>

\* by_funding_history_from: the rest of the loop body once _http_json has
\* returned; the next request carries the cursor of this answer.
ByPage ==
    /\ m.fn = "by_funding_history_from"
    /\ m.status = "running"
    /\ m.http.status = "returned"
    /\ m' = IF by_funding_more(m.http.result)
            THEN [m EXCEPT !.pages = CountPage(@), !.http = http_frame0,
                           !.cursor = m.http.result[1].cursor]
            ELSE [m EXCEPT !.status = "returned"]
    /\ UNCHANGED <<g, script, venue, sheet, pc, dates, lastdt, rows, fund, upd, clock, hist>>

NextTerm == GsCall \/ HttpGet \/ BnPage \/ ByPage

\* The process is single-threaded and each call it waits on returns or raises
\* (requests.get has a timeout): a loop that can take a step takes it.
SpecTerm == InitTerm /\ [][NextTerm]_vars /\ WF_vars(NextTerm)

\* The stated bounds: at most 7 invocations in gs_retry, at most the retry
\* budget of requests in one _http_json call, at most max_pages page requests
\* in bn_interest_history.
CallBounds ==
    /\ g.calls <= RetryBudget + 1
    /\ m.http.n <= HTTP_RETRIES
    /\ m.fn = "bn_interest_history" => m.pages <= max_pages
LoopEnded == m.status # "running"

\* C22: whatever the store and upstream answer, gs_retry invokes its operation
\* at most 7 times, _http_json issues at most its retry budget of requests,
\* bn_interest_history issues at most max_pages page requests, and each of the
\* loops, the cursor pagination of by_funding_history_from included,
\* eventually ends.
C22_Termination == []CallBounds /\ <>LoopEnded

\* The part of C22 that holds: the three bounds, and the end of every loop but
\* the cursor pagination.
TerminatesButCursorPaging ==
    []CallBounds /\ <>(LoopEnded \/ m.fn = "by_funding_history_from")

\* The loops that end do reach their bounds: the seventh invocation, the last
\* request of the budget, the last page.
BoundsReached ==
    \/ m.fn = "gs_retry" /\ g.calls = RetryBudget + 1
    \/ m.fn = "_http_json" /\ m.http.n = HTTP_RETRIES /\ LoopEnded
    \/ m.fn = "bn_interest_history" /\ m.pages = max_pages /\ LoopEnded

====
